---- MODULE Spec2Model ----
(***************************************************************************)
(* MacroGI: the insulin advisor (modules/insulin_advisor.py), the          *)
(* personalization trainer (modules/bg_finetune.py) and the forecast       *)
(* engine with its per-user model cache (modules/bg_forecast.py).          *)
(*                                                                         *)
(* Numbers.  Python floats are modelled by exact rationals <<num, den>>    *)
(* with den > 0.  A value rounded by round(x, 2) is carried in hundredths, *)
(* a value rounded by round(x, 1) in tenths, a dose rounded to the pen     *)
(* resolution in hundredths as well (a multiple of 50).  round() is        *)
(* Python's: to nearest, ties to even.                                     *)
(*                                                                         *)
(* Seven specifications share the module:                                    *)
(*   SpecAdvise   advise_dose applied to enumerated arguments              *)
(*   SpecProfile  the meal log, calculate_tdd and auto_isf_icr             *)
(*   Spec         the CGM store, fine-tuning, the model cache, forecasts   *)
(*   SpecApi      the forecast and dose-advice endpoints                   *)
(*   SpecRace     the forecast and fine-tune handlers step by step         *)
(*   SpecGrid     the five-minute grid walks with their decayed sums       *)
(*   SpecCalc     the explainer's summary and compute_iob applied to       *)
(*                enumerated arguments                                     *)
(***************************************************************************)
EXTENDS Integers, Sequences, FiniteSets

VARIABLES
    doseReq,      \* arguments of the advise_dose call that has returned, or NoCall
    doseRes,      \* what that call returned (or the exception it raised)
    mealRows,     \* meal_data rows of one user, in insertion order
    now,          \* the clock, in half days
    profile,      \* what auto_isf_icr just returned, or NoCall
    baseOnDisk,   \* os.path.exists(_BASE_MODEL_PATH)
    baseLoaded,   \* bg_forecast._model (and _scaler, _meta) is not None
    cgm,          \* the cgm_data table per patient, as runs of readings
    userDisk,     \* user_models/bg_forecast_user_{id}.keras per patient
    userCache,    \* bg_forecast._user_models
    appended,     \* CGM readings received since start (bounds the run)
    last,         \* the call that has just returned, with its outcome
    proc,         \* the request handlers in flight on the event loop, step by step
    walk,         \* a walk over the five-minute grid: its inputs and running sums
    call          \* the explain_forecast or compute_iob call that has returned

vars == <<doseReq, doseRes, mealRows, now, profile,
          baseOnDisk, baseLoaded, cgm, userDisk, userCache, appended, last,
          proc, walk, call>>

advVars == <<doseReq, doseRes>>
profVars == <<mealRows, now, profile>>
engVars == <<baseOnDisk, baseLoaded, cgm, userDisk, userCache, appended, last>>
sideVars == <<proc, walk, call>>

\* no call has returned yet
NoCall == [op |-> "none"]

\* Python's None where a string is expected
Null == "None"

(***************************************************************************)
(* Arithmetic                                                              *)
(***************************************************************************)
Abs(x) == IF x < 0 THEN -x ELSE x

Max(a, b) == IF a >= b THEN a ELSE b

Min(a, b) == IF a <= b THEN a ELSE b

\* n/d with the sign carried by the numerator (d # 0)
Rat(n, d) == IF d < 0 THEN <<-n, -d>> ELSE <<n, d>>

RatAdd(a, b) == <<a[1] * b[2] + b[1] * a[2], a[2] * b[2]>>

RatSub(a, b) == <<a[1] * b[2] - b[1] * a[2], a[2] * b[2]>>

\* max(0, a)
RatMax0(a) == IF a[1] > 0 THEN a ELSE <<0, 1>>

\* Python's round(): the integer nearest to n/d (d > 0), ties to even
RoundHalfEven(n, d) ==
    LET q == n \div d
        r == n - q * d
    IN  IF 2 * r < d THEN q
        ELSE IF 2 * r > d THEN q + 1
        ELSE IF q % 2 = 0 THEN q ELSE q + 1

\* round(a, 2) of a rational, in hundredths
Round2(a) == RoundHalfEven(100 * a[1], a[2])

(***************************************************************************)
(* Insulin advisor: advise_dose                                            *)
(*   current_bg, target_bg in mg/dL, planned_carbs in grams (integers);    *)
(*   iob in hundredths of a unit (compute_iob returns round(iob, 2));      *)
(*   isf, icr in tenths (auto_isf_icr returns round(., 1)).                *)
(***************************************************************************)
BgValues == {60, 110, 180}

TargetValues == {100, 110}

CarbValues == {0, 5, 45}

IobValues == {0, 25, 375, 1000}

IsfValues == {-100, 0, 105, 500}

IcrValues == {-50, 0, 100, 139}

DoseRequests ==
    [current_bg : BgValues, target_bg : TargetValues, planned_carbs : CarbValues,
     iob : IobValues, isf : IsfValues, icr : IcrValues]

\* correction = max(0, (current_bg - target_bg) / isf)
Correction(r) == RatMax0(Rat((r.current_bg - r.target_bg) * 10, r.isf))

\* meal_dose = planned_carbs / icr
MealDose(r) == Rat(r.planned_carbs * 10, r.icr)

\* raw_total = correction + meal_dose - iob
RawTotal(r) == RatSub(RatAdd(Correction(r), MealDose(r)), <<r.iob, 100>>)

FlooredTotal_NoFloor(r) == RawTotal(r)

\* total = max(0, raw_total)
FlooredTotal(r) == RatMax0(RawTotal(r))

RoundToHalf_Trunc(a) == ((2 * a[1]) \div a[2]) * 50

\* total = round(total * 2) / 2, in hundredths
RoundToHalf(a) == RoundHalfEven(2 * a[1], a[2]) * 50

AdviseDose(r) ==
    IF r.isf = 0 \/ r.icr = 0
    THEN [error |-> "ZeroDivisionError"]
    ELSE [error |-> Null,
          correction_dose |-> Round2(Correction(r)),
          meal_dose |-> Round2(MealDose(r)),
          iob_adjustment |-> r.iob,
          total_dose |-> RoundToHalf(FlooredTotal(r)),
          current_bg |-> r.current_bg,
          target_bg |-> r.target_bg,
          isf_used |-> r.isf,
          icr_used |-> r.icr]

AdvisorIdle == doseReq = NoCall /\ doseRes = NoCall

\* no handler in flight, no grid walked
SideIdle == proc = NoCall /\ walk = NoCall /\ call = NoCall

\* one call of advise_dose
AdviseDoseCall ==
    \E r \in DoseRequests :
        /\ doseReq' = r
        /\ doseRes' = AdviseDose(r)
        /\ UNCHANGED <<profVars, engVars, sideVars>>

InitAdvise ==
    /\ AdvisorIdle
    /\ SideIdle
    /\ mealRows = <<>> /\ now = 0 /\ profile = NoCall
    /\ baseOnDisk = FALSE /\ baseLoaded = FALSE
    /\ cgm = <<>> /\ userDisk = <<>> /\ userCache = <<>>
    /\ appended = 0 /\ last = NoCall

NextAdvise == AdviseDoseCall

SpecAdvise == InitAdvise /\ [][NextAdvise]_vars

DoseReturned == doseRes # NoCall /\ doseRes.error = Null

\* C1: whenever advise_dose returns for current_bg <= target_bg, the returned
\* correction_dose is 0 (for every isf the function accepts, negative ones too).
C1_NoCorrectionAtOrBelowTarget ==
    (DoseReturned /\ doseReq.current_bg <= doseReq.target_bg)
        => doseRes.correction_dose = 0

\* C2: the returned total_dose is never negative, and it is exactly 0 whenever
\* iob exceeds correction + meal_dose.
C2_TotalNeverNegative ==
    DoseReturned =>
        /\ doseRes.total_dose >= 0
        /\ RawTotal(doseReq)[1] < 0 => doseRes.total_dose = 0

C2_Witness ==
    /\ DoseReturned
    /\ RawTotal(doseReq)[1] < 0
    /\ doseRes.total_dose = 0

\* C3: total_dose is max(0, correction + meal_dose - iob) rounded to the nearest
\* half unit: a multiple of 0.5 that is within 0.25 of the unrounded value.
C3_TotalRoundedToHalf ==
    DoseReturned =>
        LET t == RatMax0(RawTotal(doseReq))
            h == doseRes.total_dose \div 50
        IN  /\ doseRes.total_dose % 50 = 0
            /\ 2 * Abs(h * t[2] - 2 * t[1]) <= t[2]

C3_Witness ==
    /\ DoseReturned
    /\ doseRes.total_dose > 0
    /\ LET t == RatMax0(RawTotal(doseReq))
       IN  (2 * t[1]) % t[2] # 0 /\ 4 * ((2 * t[1]) % t[2]) > t[2]

(***************************************************************************)
(* Insulin advisor: calculate_tdd and auto_isf_icr                         *)
(*   created_at in half days, so that two entries of one calendar day can  *)
(*   fall on either side of the seven-day cutoff; insulin in whole units,  *)
(*   <<>> for a null column.                                               *)
(***************************************************************************)
MaxMeals == 3

MaxNow == 21

\* timedelta(days=7)
WindowDays == 7

WindowHalfDays == 2 * WindowDays

PastStamps == {4, 6, 7, 19}

\* the diary stores the posted amount unchecked: absent, zero, negative or positive
InsulinValues == {<<>>, <<-4>>, <<0>>, <<4>>, <<36>>, <<200>>}

MealRowValues == [created_at : PastStamps, insulin : InsulinValues]

\* row["created_at"][:10]
Day(ts) == ts \div 2

\* float(row.get("insulin") or 0)
InsulinOf(row) == IF row.insulin = <<>> THEN 0 ELSE row.insulin[1]

QueryMealData_NoWindow(rows, cutoff) == rows

\* db.table("meal_data").select(...).gt("created_at", cutoff)
QueryMealData(rows, cutoff) == SelectSeq(rows, LAMBDA row : row.created_at > cutoff)

AddRow_NoSkip(totals, row) ==
    LET day == Day(row.created_at)
        old == IF day \in DOMAIN totals THEN totals[day] ELSE 0
    IN  [d \in DOMAIN totals \cup {day} |->
            IF d = day THEN old + InsulinOf(row) ELSE totals[d]]

\* one iteration of the loop over rows: daily_totals[day] += insulin
AddRow(totals, row) ==
    IF InsulinOf(row) <= 0
    THEN totals
    ELSE LET day == Day(row.created_at)
             old == IF day \in DOMAIN totals THEN totals[day] ELSE 0
         IN  [d \in DOMAIN totals \cup {day} |->
                 IF d = day THEN old + InsulinOf(row) ELSE totals[d]]

RECURSIVE DailyTotals(_, _)
DailyTotals(rows, totals) ==
    IF rows = <<>> THEN totals
    ELSE DailyTotals(Tail(rows), AddRow(totals, Head(rows)))

RECURSIVE SumValues(_, _)
\* sum(daily_totals.values())
SumValues(totals, days) ==
    IF days = {} THEN 0
    ELSE LET d == CHOOSE x \in days : TRUE
         IN  totals[d] + SumValues(totals, days \ {d})

\* the TDD as a rational, <<>> for None
NoTdd == <<>>

CalculateTdd(rows, clock) ==
    LET got == QueryMealData(rows, clock - WindowHalfDays)
        totals == DailyTotals(got, <<>>)
    IN  IF got = <<>> THEN NoTdd
        ELSE IF DOMAIN totals = {} THEN NoTdd
        ELSE <<SumValues(totals, DOMAIN totals), Cardinality(DOMAIN totals)>>

Clamp_NoUpper(x, lo, hi) == Max(lo, x)

\* max(lo, min(x, hi))
Clamp(x, lo, hi) == Max(lo, Min(x, hi))

DefaultProfile == [isf |-> 500, icr |-> 100, tdd |-> <<>>, source |-> "default"]

\* isf, icr and tdd in tenths
AutoIsfIcr(tdd) ==
    IF tdd # NoTdd /\ tdd[1] # 0 /\ tdd[1] > 0
    THEN [isf |-> Clamp(RoundHalfEven(1800 * 10 * tdd[2], tdd[1]), 100, 2000),
          icr |-> Clamp(RoundHalfEven(500 * 10 * tdd[2], tdd[1]), 30, 500),
          tdd |-> <<RoundHalfEven(10 * tdd[1], tdd[2])>>,
          source |-> "calculated"]
    ELSE DefaultProfile

ProfileIdle == mealRows = <<>> /\ now = 0 /\ profile = NoCall

\* the diary endpoint inserts a meal_data row stamped with the current time
LogMeal ==
    \E v \in InsulinValues :
        /\ Len(mealRows) < MaxMeals
        /\ mealRows' = Append(mealRows, [created_at |-> now, insulin |-> v])
        /\ profile' = NoCall
        /\ UNCHANGED <<now, advVars, engVars, sideVars>>

Tick ==
    /\ now < MaxNow
    /\ now' = now + 1
    /\ profile' = NoCall
    /\ UNCHANGED <<mealRows, advVars, engVars, sideVars>>

\* one call of auto_isf_icr: the local tdd and the returned profile
AutoIsfIcrCall ==
    /\ profile' = [tdd |-> CalculateTdd(mealRows, now),
                   res |-> AutoIsfIcr(CalculateTdd(mealRows, now))]
    /\ UNCHANGED <<mealRows, now, advVars, engVars, sideVars>>

IsSorted(rows) ==
    \A i \in 1..(Len(rows) - 1) : rows[i].created_at <= rows[i + 1].created_at

InitProfile ==
    /\ AdvisorIdle
    /\ SideIdle
    /\ now = 20
    /\ mealRows \in {rows \in UNION {[1..k -> MealRowValues] : k \in 0..MaxMeals} :
                        IsSorted(rows)}
    /\ profile = NoCall
    /\ baseOnDisk = FALSE /\ baseLoaded = FALSE
    /\ cgm = <<>> /\ userDisk = <<>> /\ userCache = <<>>
    /\ appended = 0 /\ last = NoCall

NextProfile == LogMeal \/ Tick \/ AutoIsfIcrCall

SpecProfile == InitProfile /\ [][NextProfile]_vars

ProfileReturned == profile # NoCall

\* indices of the rows logged in the trailing seven days
InWindow == {i \in 1..Len(mealRows) : mealRows[i].created_at > now - WindowHalfDays}

\* insulin units logged by the rows idx (an entry below zero logs no insulin)
RECURSIVE SumInsulin(_)
SumInsulin(idx) ==
    IF idx = {} THEN 0
    ELSE LET i == CHOOSE x \in idx : TRUE
         IN  Max(InsulinOf(mealRows[i]), 0) + SumInsulin(idx \ {i})

\* calendar days of the window on which any insulin was logged
InsulinDays == {Day(mealRows[i].created_at) : i \in {j \in InWindow : InsulinOf(mealRows[j]) > 0}}

\* C4: with no insulin logged in the trailing seven days (TDD undefined or <= 0)
\* the profile is the fixed default; source is "calculated" only when TDD > 0.
C4_DefaultWithoutTdd ==
    ProfileReturned =>
        /\ (InsulinDays = {} \/ profile.tdd = NoTdd \/ profile.tdd[1] <= 0)
              => profile.res = DefaultProfile
        /\ profile.res.source = "calculated"
              => (InsulinDays # {} /\ profile.tdd # NoTdd /\ profile.tdd[1] > 0)
        /\ profile.res.source \in {"calculated", "default"}

C4_Witness ==
    /\ ProfileReturned
    /\ InWindow # {}
    /\ InsulinDays = {}
    /\ \E i \in 1..Len(mealRows) : InsulinOf(mealRows[i]) > 0
    /\ profile.res = DefaultProfile

\* C5 as stated: isf = clamp(1800/TDD, 10, 200) and icr = clamp(500/TDD, 3, 50),
\* exactly.
C5_ExactClamp ==
    (ProfileReturned /\ profile.res.source = "calculated") =>
        LET n == profile.tdd[1]
            d == profile.tdd[2]
            Exact(v, k, lo, hi) ==
                IF k * 10 * d < lo * n THEN v = lo
                ELSE IF k * 10 * d > hi * n THEN v = hi
                ELSE v * n = k * 10 * d
        IN  /\ Exact(profile.res.isf, 1800, 100, 2000)
            /\ Exact(profile.res.icr, 500, 30, 500)

\* C5 amended: isf and icr are 1800/TDD and 500/TDD rounded to one decimal
\* place and then clamped, so each is within 0.05 of the exact clamp and
\* 10 <= isf <= 200, 3 <= icr <= 50.
C5_RoundedClamp ==
    (ProfileReturned /\ profile.res.source = "calculated") =>
        LET n == profile.tdd[1]
            d == profile.tdd[2]
            Near(v, k, lo, hi) ==
                IF k * 10 * d < lo * n THEN v = lo
                ELSE IF k * 10 * d > hi * n THEN v = hi
                ELSE 2 * Abs(v * n - k * 10 * d) <= n
        IN  /\ Near(profile.res.isf, 1800, 100, 2000)
            /\ Near(profile.res.icr, 500, 30, 500)
            /\ profile.res.isf >= 100 /\ profile.res.isf <= 2000
            /\ profile.res.icr >= 30 /\ profile.res.icr <= 500

C5_Witness ==
    /\ ProfileReturned
    /\ profile.res.source = "calculated"
    /\ profile.tdd = <<36, 1>>
    /\ profile.res.isf = 500
    /\ profile.res.icr = 139

\* C6: the TDD is the sum of all insulin units logged in the trailing seven
\* days divided by the number of distinct calendar days of that window with
\* insulin logged; it is undefined exactly when there is no such day.
C6_TddIsMeanOverInsulinDays ==
    ProfileReturned =>
        /\ profile.tdd = NoTdd <=> InsulinDays = {}
        /\ profile.tdd # NoTdd =>
              profile.tdd[1] * Cardinality(InsulinDays)
                  = SumInsulin(InWindow) * profile.tdd[2]

C6_Witness ==
    /\ ProfileReturned
    /\ profile.tdd # NoTdd
    /\ Cardinality(InsulinDays) = 2
    /\ \E i \in InWindow : /\ InsulinOf(mealRows[i]) = 0
                            /\ Day(mealRows[i].created_at) \notin InsulinDays

(***************************************************************************)
(* CGM store and personalization trainer (bg_finetune.py)                  *)
(*   timestamps in minutes; a grid row carries its slot and its glucose    *)
(*   (the decay features are not needed to count rows and windows).        *)
(***************************************************************************)
Patients == {"p1", "p2"}

\* MIN_READINGS
MinReadings == 288

\* INPUT_LEN = _meta['input_len']
InputLen == 12

\* HORIZONS = _meta['horizons']
Horizons == <<6, 12, 18>>

MaxAppends == 1

GridStep == 5

\* ts.replace(second=0, microsecond=0).replace(minute=(minute // 5) * 5)
Slot(ts) == (ts \div GridStep) * GridStep

\* max(HORIZONS)
MaxHorizon == LET S == {Horizons[i] : i \in DOMAIN Horizons}
              IN  CHOOSE h \in S : \A g \in S : g <= h

\* The cgm_data table of a patient is kept as runs: n readings of value bg,
\* the first at ts and the following ones step minutes apart (step = 0: several
\* readings of one minute).  The runs are in timestamp order.
Run(ts, step, n, bg) == [ts |-> ts, step |-> step, n |-> n, bg |-> bg]

RECURSIVE RowsOf(_)
\* the rows of the table: select("bg_value, timestamp").order("timestamp")
RowsOf(runs) ==
    IF runs = <<>> THEN <<>>
    ELSE LET r == Head(runs)
         IN  [i \in 1..r.n |-> [timestamp |-> r.ts + r.step * (i - 1), bg_value |-> r.bg]]
                 \o RowsOf(Tail(runs))

\* the timestamp of the last row
LastStamp(runs) ==
    LET r == runs[Len(runs)] IN r.ts + r.step * (r.n - 1)

\* the stores tried for p1: no reading; 287 readings on 30 slots; 288 readings
\* on 29 slots; a full day of readings five minutes apart; two half days of
\* readings five minutes apart with the reading of 12:00 missing
Histories ==
    {<<>>,
     <<Run(0, 0, 258, 100), Run(5, 5, 29, 110)>>,
     <<Run(0, 0, 260, 100), Run(5, 5, 28, 110)>>,
     <<Run(0, 5, 288, 120)>>,
     <<Run(0, 5, 144, 120), Run(725, 5, 144, 130)>>}

\* every history for p1, the full day for p2
Stores ==
    {st \in [Patients -> Histories] : st["p2"] = <<Run(0, 5, 288, 120)>>}

\* cgm_rows is sorted by timestamp, so the readings of one slot are adjacent and
\* cgm_map[rounded] = bg_value keeps the last of them: the indices of the
\* readings that stay in cgm_map, in slot order
GridWinners(rows) ==
    SelectSeq([i \in 1..Len(rows) |-> i],
              LAMBDA i : \/ i = Len(rows)
                         \/ Slot(rows[i + 1].timestamp) # Slot(rows[i].timestamp))

\* the walk from t_start = the first reading's slot to t_end = the last
\* reading's timestamp visits every slot of cgm_map once, in ascending order,
\* and emits one row for each; a slot without a reading emits nothing
BuildTimeSeries(rows) ==
    LET kept == GridWinners(rows)
    IN  [j \in DOMAIN kept |->
            [slot |-> Slot(rows[kept[j]].timestamp), glucose |-> rows[kept[j]].bg_value,
             glucose_roc |-> IF j = 1 THEN 0
                             ELSE rows[kept[j]].bg_value - rows[kept[j - 1]].bg_value]]

CreateSequences_OffByOne(data) ==
    [i \in 1..Max(0, Len(data) - InputLen - MaxHorizon) |->
        [first |-> i, targets |-> [h \in DOMAIN Horizons |-> i + InputLen + Horizons[h] - 1]]]

\* for i in range(len(data) - INPUT_LEN - max_horizon + 1): window i..i+INPUT_LEN-1
\* with its targets at i + INPUT_LEN + h - 1 (1-based grid rows here)
CreateSequences(data) ==
    [i \in 1..Max(0, Len(data) - InputLen - MaxHorizon + 1) |->
        [first |-> i, targets |-> [h \in DOMAIN Horizons |-> i + InputLen + Horizons[h] - 1]]]

EnoughReadings_OffByOne(rows) == Len(rows) >= MinReadings - 1

\* not (len(cgm_rows) < MIN_READINGS)
EnoughReadings(rows) == Len(rows) >= MinReadings

NoModel == [kind |-> "none"]

BaseModel == [kind |-> "base"]

TrainedModel_Resume(user, rows) ==
    [kind |-> "user", owner |-> user,
     trained |-> Len(rows) + (IF userDisk[user] = NoModel THEN 0 ELSE userDisk[user].trained)]

\* what model.save writes: the base model fine-tuned on the user's history
TrainedModel(user, rows) == [kind |-> "user", owner |-> user, trained |-> Len(rows)]

\* a fine-tuned model persisted by an earlier process
OldModel(user) == [kind |-> "user", owner |-> user, trained |-> 0]

\* finetune_for_user: what it raises or returns, and the model it saves
FinetuneForUser(user) ==
    LET rows == RowsOf(cgm[user])
        grid == BuildTimeSeries(rows)
        seqs == CreateSequences(grid)
        Fail(msg) == [raised |-> Null, saved |-> NoModel,
                      ret |-> [success |-> FALSE, message |-> msg, metrics |-> <<>>]]
    IN  IF ~baseOnDisk
        THEN [raised |-> "RuntimeError", saved |-> NoModel, ret |-> <<>>]
        ELSE IF ~EnoughReadings(rows) THEN Fail("NotEnoughReadings")
        ELSE IF Len(grid) < InputLen + MaxHorizon THEN Fail("NotEnoughAligned")
        ELSE IF Len(seqs) = 0 THEN Fail("NoSequences")
        ELSE [raised |-> Null, saved |-> TrainedModel(user, rows),
              ret |-> [success |-> TRUE, message |-> "Complete",
                       metrics |-> <<[epochs |-> 15, sequences |-> Len(seqs)]>>]]

InvalidateUserModelCache_Keep(cache, user) == cache

InvalidateUserModelCache_All(cache, user) == [u \in DOMAIN cache |-> NoModel]

\* _user_models.pop(user_id, None)
InvalidateUserModelCache(cache, user) == [cache EXCEPT ![user] = NoModel]

ShouldInvalidate_Always(out) == TRUE

\* finetune_model: the call returned (the except branch is not taken) and
\* result["success"] is true
ShouldInvalidate(out) == out.raised = Null /\ out.ret.success

\* POST /api/finetune-model
FinetuneModel ==
    \E user \in Patients : \E out \in {FinetuneForUser(user)} :
        LET ok == ShouldInvalidate(out)
        IN  /\ userDisk' = IF out.saved # NoModel
                           THEN [userDisk EXCEPT ![user] = out.saved]
                           ELSE userDisk
            /\ userCache' = IF ok THEN InvalidateUserModelCache(userCache, user)
                            ELSE userCache
            /\ last' = [op |-> "finetune", user |-> user, before |-> userDisk[user],
                        cached |-> userCache[user],
                        raised |-> out.raised, ret |-> out.ret,
                        wrote |-> out.saved # NoModel,
                        response |-> IF out.raised = Null THEN out.ret
                                     ELSE [success |-> FALSE, message |-> out.raised,
                                           metrics |-> <<>>]]
            /\ UNCHANGED <<baseOnDisk, baseLoaded, cgm, appended, advVars, profVars, sideVars>>

\* POST /cgms-data: one reading, in the last reading's minute or in the next slot
ReceiveCgmData ==
    \E user \in Patients, gap \in {0, 1}, bg \in {150} :
        LET runs == cgm[user]
            ts == IF runs = <<>> THEN 0
                  ELSE IF gap = 0 THEN LastStamp(runs)
                  ELSE Slot(LastStamp(runs)) + GridStep
        IN  /\ appended < MaxAppends
            /\ appended' = appended + 1
            /\ cgm' = [cgm EXCEPT ![user] = Append(runs, Run(ts, 0, 1, bg))]
            /\ last' = [op |-> "cgm", user |-> user]
            /\ UNCHANGED <<baseOnDisk, baseLoaded, userDisk, userCache, advVars, profVars, sideVars>>

(***************************************************************************)
(* Forecast engine (bg_forecast.py)                                        *)
(*   A feature row keeps the time of day as hour_frac in minutes (hour_sin *)
(*   and hour_cos are functions of it); the scaler and the network are     *)
(*   opaque: a prediction is identified by the model and the window fed.   *)
(***************************************************************************)
Users == Patients \cup {Null}

MaxOlder == 1

TsAbsent == [kind |-> "absent"]

TsAt(m) == [kind |-> "at", minute |-> m]

FcRow(g, ts) ==
    [glucose |-> g, insulin |-> 0, carbs |-> 0, IOB |-> 0, COB |-> 0, timestamp |-> ts]

\* twelve readings rising from 120 to 175 mg/dL, five minutes apart from 10:00
RisingWindow(tsKind) ==
    [i \in 1..InputLen |->
        FcRow(120 + 5 * (i - 1),
              IF tsKind = "at" THEN TsAt(600 + GridStep * (i - 1))
              ELSE [kind |-> tsKind])]

\* up to MaxOlder rows older than the window, all low or all high
OlderRows ==
    {[i \in 1..k |-> FcRow(g, TsAbsent)] : k \in 0..MaxOlder, g \in {80, 200}}

\* the request bodies tried: older rows, then the window or its last eleven
\* rows; and a window whose rows carry "timestamp": None
FcInputs ==
    {older \o SubSeq(RisingWindow("at"), s, InputLen) : older \in OlderRows, s \in {1, 2}}
        \cup {RisingWindow("none")}

\* _get_model_for_user: the model returned
GetModelForUser(user) ==
    LET base == IF baseLoaded THEN BaseModel ELSE NoModel
    IN  IF user = Null THEN base
        ELSE IF userCache[user] # NoModel THEN userCache[user]
        ELSE IF userDisk[user] # NoModel THEN userDisk[user]
        ELSE base

\* _get_model_for_user: _user_models afterwards
CacheAfterGet(user) ==
    IF user # Null /\ userCache[user] = NoModel /\ userDisk[user] # NoModel
    THEN [userCache EXCEPT ![user] = userDisk[user]]
    ELSE userCache

WindowOf_All(readings) == readings

\* readings = recent_readings[-input_len:]
WindowOf(readings) == SubSeq(readings, Len(readings) - InputLen + 1, Len(readings))

\* hour_frac, in minutes: midday unless the row carries a timestamp
HourFrac(r) == IF r.timestamp.kind = "absent" THEN 720 ELSE r.timestamp.minute

\* the (12, 8) feature matrix built from the window
FeatureRows(readings) ==
    [i \in DOMAIN readings |->
        [glucose |-> readings[i].glucose,
         insulin |-> readings[i].insulin,
         carbs |-> readings[i].carbs,
         IOB |-> readings[i].IOB,
         COB |-> readings[i].COB,
         hour_frac |-> HourFrac(readings[i]),
         glucose_roc |-> IF i = 1 THEN 0
                         ELSE readings[i].glucose - readings[i - 1].glucose]]

\* forecast_glucose once the model is resolved: the exception raised, or the
\* window fed to the model
ForecastOutcome(model, recent) ==
    LET Raise(e) == [error |-> e, model |-> NoModel, input |-> <<>>]
        readings == WindowOf(recent)
    IN  IF model = NoModel THEN Raise("RuntimeError")
        ELSE IF ~baseLoaded THEN Raise("TypeError")
        ELSE IF Len(recent) < InputLen THEN Raise("ValueError")
        ELSE IF \E i \in DOMAIN readings : readings[i].timestamp.kind = "none"
             THEN Raise("AttributeError")
        ELSE [error |-> Null, model |-> model, input |-> FeatureRows(readings)]

\* the call that returned just before this one, as far as later calls are
\* compared with it
Preceding ==
    IF last.op = "finetune"
    THEN [op |-> "finetune", user |-> last.user, success |-> last.response.success,
          cached |-> last.cached]
    ELSE [op |-> last.op]

\* the attribution library at the time of a call: importable and working,
\* not installed, or raising while it computes
ShapStates == {"ok", "missing", "raises"}

\* explain_forecast: whether it raises, and what it returns
ExplainForecast(model, input, shap) ==
    IF shap = "missing"
    THEN [raised |-> FALSE, ret |-> [error |-> "shap package not installed"]]
    ELSE IF shap = "raises"
    THEN [raised |-> TRUE, ret |-> [error |-> Null]]
    ELSE [raised |-> FALSE,
          ret |-> [error |-> Null, horizons |-> {"30min", "60min", "90min"},
                   model |-> model, summary |-> "summary"]]

\* forecast_glucose, the explain block: the "explanations" entry of the result,
\* <<>> when the result has no such key
Explanations(out, explain, shap) ==
    IF out.error # Null \/ ~explain THEN <<>>
    ELSE LET e == ExplainForecast(out.model, out.input, shap)
         IN  IF e.raised THEN <<>> ELSE <<e.ret>>

\* the readings passed together with a user_id: the window or its last eleven
\* rows (any request body reaches forecast_glucose without a user_id)
UserInputs == {SubSeq(RisingWindow("at"), s, InputLen) : s \in {1, 2}}

\* one call of forecast_glucose(recent_readings, user_id)
ForecastGlucose ==
    \E user \in Users, recent \in FcInputs :
        /\ user = Null \/ recent \in UserInputs
        /\ userCache' = CacheAfterGet(user)
        /\ last' = [op |-> "forecast", user |-> user, recent |-> recent,
                    after |-> Preceding,
                    resolved |-> GetModelForUser(user),
                    out |-> ForecastOutcome(GetModelForUser(user), recent)]
        /\ UNCHANGED <<baseOnDisk, baseLoaded, cgm, userDisk, appended, advVars, profVars, sideVars>>

\* POST /forecast-bg: forecast_glucose(readings) on the base model; nothing
\* catches what it raises
ForecastBg ==
    \E recent \in FcInputs :
        LET out == ForecastOutcome(GetModelForUser(Null), recent)
        IN  /\ last' = [op |-> "forecast_bg", recent |-> recent, out |-> out,
                        response |-> IF out.error = Null
                                     THEN [kind |-> "result", reason |-> Null]
                                     ELSE [kind |-> "unhandled", reason |-> Null]]
            /\ UNCHANGED <<baseOnDisk, baseLoaded, cgm, userDisk, userCache, appended,
                           advVars, profVars, sideVars>>

\* timedelta(hours=24), in minutes
DayMinutes == 1440

\* minutes between the patient's latest reading and the request
ClockOffsets == {1, 1400, 10080}

\* the cgm_data rows of the last 24 hours: .gt("timestamp", yesterday)
DataPoints(rows, clock) ==
    SelectSeq(rows, LAMBDA row : row.timestamp > clock - DayMinutes)

\* readings_for_model: the last 12 data points with their time of day (no meal
\* or insulin event is logged for these patients, so the four event features
\* are 0)
ReadingsForModel(points) ==
    [i \in 1..InputLen |->
        LET row == points[Len(points) - InputLen + i]
        IN  FcRow(row.bg_value, TsAt(row.timestamp % DayMinutes))]

\* GET /api/glucose-stats, the forecast part of its answer; preds is what
\* forecast_glucose(readings_for_model, user_id, explain=True) raised or returned
GetGlucoseStats ==
    \E user \in Patients, offset \in ClockOffsets, shap \in ShapStates :
        \E rows \in {RowsOf(cgm[user])} :
        \E points \in {DataPoints(rows, IF rows = <<>> THEN offset
                                         ELSE rows[Len(rows)].timestamp + offset)} :
        \E out \in {IF Len(points) >= InputLen
                     THEN ForecastOutcome(GetModelForUser(user), ReadingsForModel(points))
                     ELSE [error |-> "NotCalled"]} :
        \E expl \in {Explanations(out, TRUE, shap)} :
            /\ userCache' = IF Len(points) >= InputLen THEN CacheAfterGet(user)
                            ELSE userCache
            /\ last' = [op |-> "glucose_stats", user |-> user, points |-> Len(points),
                        shap |-> shap,
                        preds |-> IF out.error = Null
                                  THEN [error |-> Null, model |-> out.model,
                                        explanations |-> expl]
                                  ELSE [error |-> out.error],
                        response |->
                            IF points = <<>>
                            THEN [error |-> "No data found"]
                            ELSE [error |-> Null,
                                  forecast_data |-> IF out.error = Null THEN <<out.model>>
                                                    ELSE <<>>,
                                  explanations |-> expl,
                                  reason |-> Null]]
            /\ UNCHANGED <<baseOnDisk, baseLoaded, cgm, userDisk, appended,
                           advVars, profVars, sideVars>>

\* compute_iob with the clock in half days: the rows later than five hours ago
\* are those of the current half day, and none of their insulin has decayed
ComputeIobHalfDays(rows, clock) ==
    LET recent == SelectSeq(rows, LAMBDA row : row.created_at >= clock /\ InsulinOf(row) > 0)
        units == [i \in DOMAIN recent |-> InsulinOf(recent[i])]
    IN  100 * SumValues(units, DOMAIN units)

\* request.isf / request.icr: absent, or a value in tenths
AdviceRequests ==
    [planned_carbs : {0, 45}, target_bg : {110},
     isf : {<<>>, <<0>>, <<400>>}, icr : {<<>>, <<80>>}]

\* Python truth of an optional number
Truthy(x) == x # <<>> /\ x[1] # 0

\* minutes between the patient's latest reading and the advice request
AdviceAges == {5, 10080}

\* POST /api/insulin-advice
InsulinAdvice ==
    \E user \in Patients, req \in AdviceRequests, age \in AdviceAges :
        \E auto \in {AutoIsfIcr(CalculateTdd(mealRows, now))} :
        \E iob \in {ComputeIobHalfDays(mealRows, now)} :
        LET runs == cgm[user]
            dose == AdviseDose([current_bg |-> runs[Len(runs)].bg,
                                target_bg |-> req.target_bg,
                                planned_carbs |-> req.planned_carbs,
                                iob |-> iob,
                                isf |-> IF Truthy(req.isf) THEN req.isf[1] ELSE auto.isf,
                                icr |-> IF Truthy(req.icr) THEN req.icr[1] ELSE auto.icr])
        IN  /\ last' = [op |-> "advice", user |-> user, req |-> req,
                        age |-> IF runs = <<>> THEN <<>> ELSE <<age>>,
                        response |-> IF runs = <<>>
                                     THEN [error |-> "No CGM data available"]
                                     ELSE dose]
            /\ UNCHANGED <<baseOnDisk, baseLoaded, cgm, userDisk, userCache, appended,
                           advVars, profVars, sideVars>>

Init ==
    /\ AdvisorIdle
    /\ SideIdle
    /\ ProfileIdle
    /\ baseOnDisk \in BOOLEAN
    /\ baseLoaded = baseOnDisk
    /\ cgm \in Stores
    /\ userDisk \in {d \in [Patients -> {NoModel, OldModel("p1"), OldModel("p2")}] :
                        \A u \in Patients : d[u] \in {NoModel, OldModel(u)}}
    /\ userCache = [u \in Patients |-> NoModel]
    /\ appended = 0
    /\ last = NoCall

Next == ReceiveCgmData \/ FinetuneModel \/ ForecastGlucose

Spec == Init /\ [][Next]_vars

\* the stores tried for the endpoints: p1 without a reading, with eight
\* readings or with a full day; p2 with a full day
ApiStores ==
    {st \in [Patients -> {<<>>, <<Run(0, 5, 8, 100)>>, <<Run(0, 5, 288, 120)>>}] :
        st["p2"] = <<Run(0, 5, 288, 120)>>}

InitApi ==
    /\ AdvisorIdle
    /\ SideIdle
    /\ ProfileIdle
    /\ baseOnDisk \in BOOLEAN
    /\ baseLoaded = baseOnDisk
    /\ cgm \in ApiStores
    /\ userDisk \in {d \in [Patients -> {NoModel, OldModel("p1"), OldModel("p2")}] :
                        \A u \in Patients : d[u] \in {NoModel, OldModel(u)}}
    /\ userCache = [u \in Patients |-> NoModel]
    /\ appended = 0
    /\ last = NoCall

NextApi == ReceiveCgmData \/ ForecastBg \/ GetGlucoseStats \/ InsulinAdvice

\* the endpoints that answer forecast and dose-advice requests
SpecApi == InitApi /\ [][NextApi]_vars

FinetuneReturned == last.op = "finetune"

\* len(cgm_rows) of the patient of the last call
ReadingCount == Len(RowsOf(cgm[last.user]))

\* number of five-minute slots that hold a reading of that patient
GridSize ==
    LET rows == RowsOf(cgm[last.user])
    IN  Cardinality({Slot(rows[i].timestamp) : i \in DOMAIN rows})

\* C7 as stated: with fewer than 288 readings finetune returns success=false
\* with the insufficient-history message and no metrics, and writes no model.
C7_InsufficientHistory ==
    (FinetuneReturned /\ ReadingCount < MinReadings) =>
        /\ last.raised = Null
        /\ last.ret.success = FALSE
        /\ last.ret.message = "NotEnoughReadings"
        /\ last.ret.metrics = <<>>
        /\ ~last.wrote
        /\ userDisk[last.user] = last.before

\* C7 amended: with fewer than 288 readings no model is written; when the base
\* model file exists finetune returns success=false with the
\* insufficient-history message and no metrics, and when it does not exist
\* finetune raises RuntimeError, which the endpoint reports as success=false.
C7_InsufficientHistoryGivenBase ==
    (FinetuneReturned /\ ReadingCount < MinReadings) =>
        /\ ~last.wrote
        /\ userDisk[last.user] = last.before
        /\ last.response.success = FALSE
        /\ last.response.metrics = <<>>
        /\ baseOnDisk =>
              /\ last.raised = Null
              /\ last.ret.success = FALSE
              /\ last.ret.message = "NotEnoughReadings"
              /\ last.ret.metrics = <<>>
        /\ ~baseOnDisk => last.raised = "RuntimeError"

C7_Witness ==
    /\ FinetuneReturned
    /\ baseOnDisk
    /\ ReadingCount = MinReadings - 1
    /\ GridSize >= InputLen + MaxHorizon
    /\ last.ret.message = "NotEnoughReadings"
    /\ last.before # NoModel
    /\ userDisk[last.user] = last.before

ForecastReturned == last.op = "forecast"

\* the n most recent rows of a request
LastRows(rows, n) == [i \in 1..n |-> rows[Len(rows) - n + i]]

\* C9 as stated: a forecast on fewer than 12 rows fails with InsufficientData,
\* and on 12 or more rows its outcome is that of any other request with the
\* same 12 most recent rows.
C9_WindowOnly ==
    ForecastReturned =>
        /\ Len(last.recent) < InputLen => last.out.error = "ValueError"
        /\ Len(last.recent) >= InputLen =>
              \A other \in FcInputs :
                  (Len(other) >= InputLen
                      /\ LastRows(other, InputLen) = LastRows(last.recent, InputLen))
                  => ForecastOutcome(last.resolved, other) = last.out

\* C9 amended: when the base model is loaded, a forecast on fewer than 12 rows
\* fails with InsufficientData (when it is not loaded the forecast fails before
\* the rows are counted); on 12 or more rows the model input is built from the
\* 12 most recent rows alone.
C9_WindowOnlyGivenBase ==
    ForecastReturned =>
        /\ (baseLoaded /\ Len(last.recent) < InputLen) => last.out.error = "ValueError"
        /\ ~baseLoaded => last.out.error \in {"RuntimeError", "TypeError"}
        /\ last.out.error = Null =>
              /\ Len(last.out.input) = InputLen
              /\ \A i \in 1..InputLen :
                    last.out.input[i].glucose
                        = last.recent[Len(last.recent) - InputLen + i].glucose
        /\ Len(last.recent) >= InputLen =>
              \A other \in FcInputs :
                  (Len(other) >= InputLen
                      /\ LastRows(other, InputLen) = LastRows(last.recent, InputLen))
                  => ForecastOutcome(last.resolved, other) = last.out

C9_Witness ==
    /\ ForecastReturned
    /\ Len(last.recent) > InputLen
    /\ last.out.error = Null
    /\ \E other \in FcInputs :
          /\ other # last.recent
          /\ Len(other) >= InputLen
          /\ LastRows(other, InputLen) = LastRows(last.recent, InputLen)

\* C10: a forecast for a patient with a cached or persisted fine-tuned model
\* resolves to that patient's model and otherwise to the base model; whenever
\* no base model is loaded the forecast fails with ModelUnavailable.
C10_ModelResolution ==
    ForecastReturned =>
        /\ IF last.user # Null
              /\ (userCache[last.user] # NoModel \/ userDisk[last.user] # NoModel)
           THEN last.resolved.kind = "user" /\ last.resolved.owner = last.user
           ELSE last.resolved = (IF baseLoaded THEN BaseModel ELSE NoModel)
        /\ ~baseLoaded => last.out.error = "RuntimeError"

\* a forecast for the patient whose fine-tuning has just succeeded (the
\* endpoint invalidates the patient's cache entry in the same call)
ForecastAfterFinetune ==
    /\ ForecastReturned
    /\ last.after.op = "finetune"
    /\ last.after.success
    /\ last.after.user = last.user

\* C11: the forecast that follows a successful finetune(p) and invalidate(p)
\* resolves to the model just persisted for p, loaded from storage into the
\* cache, and not to the model cached before the fine-tuning.
C11_FreshModelAfterInvalidate ==
    ForecastAfterFinetune =>
        /\ last.resolved = userDisk[last.user]
        /\ last.resolved = TrainedModel(last.user, RowsOf(cgm[last.user]))
        /\ userCache[last.user] = userDisk[last.user]
        /\ last.out.error = Null => last.out.model = userDisk[last.user]

C11_Witness ==
    /\ ForecastAfterFinetune
    /\ last.after.cached = OldModel(last.user)
    /\ last.resolved # last.after.cached
    /\ last.out.error = Null
    /\ last.out.model.trained >= MinReadings

\* C13: a call that loads or invalidates the cache entry of patient p leaves
\* the cache entry of every other patient q as it was (present or absent, and
\* the same model).
C13_CacheIsolation ==
    [][\A q \in Patients :
          (last'.op \in {"forecast", "finetune"} /\ last'.user # q)
              => userCache'[q] = userCache[q]]_vars

C13_Witness ==
    /\ FinetuneReturned
    /\ last.response.success
    /\ last.cached # NoModel
    /\ userCache[last.user] = NoModel
    /\ \E q \in Patients \ {last.user} :
          userCache[q] # NoModel /\ userCache[q].owner = q

\* C17: a fine-tune call leaves the base model (file and loaded copy) and
\* every other patient's persisted model untouched; what it persists for the
\* patient is determined by the patient and the history alone; and a second run
\* on the same history ends with the same persisted model and the same answer,
\* whether or not a fine-tuned model existed before.
C17_FinetuneIdempotent ==
    [][last'.op = "finetune" =>
          /\ baseOnDisk' = baseOnDisk
          /\ baseLoaded' = baseLoaded
          /\ \A q \in Patients \ {last'.user} : userDisk'[q] = userDisk[q]
          /\ last'.wrote =>
                userDisk'[last'.user] = [kind |-> "user", owner |-> last'.user,
                                         trained |-> Len(RowsOf(cgm[last'.user]))]
          /\ ~last'.wrote => userDisk'[last'.user] = userDisk[last'.user]
          /\ (last.op = "finetune" /\ last.user = last'.user) =>
                /\ userDisk' = userDisk
                /\ last'.response = last.response]_vars

C17_Witness ==
    /\ FinetuneReturned
    /\ last.response.success
    /\ last.before # NoModel
    /\ last.before.trained >= MinReadings
    /\ userDisk[last.user] = last.before
    /\ \E q \in Patients \ {last.user} : userDisk[q] = OldModel(q)

\* C14: a forecast asked to explain whose Explainer fails (the attribution
\* library missing, or the computation raising) still returns its predictions,
\* and its result has no explanations entry.
C14_ExplainerFailureOmitted ==
    (last.op = "glucose_stats" /\ last.shap # "ok" /\ last.preds.error = Null) =>
        /\ last.preds.explanations = <<>>
        /\ last.response.forecast_data # <<>>

\* C15: every forecast request and every dose-advice request ends in a complete
\* result or in a structured answer that carries a reason: nothing is thrown to
\* the caller, and no forecast is left out of an answer without a reason.
C15_StructuredAnswers ==
    /\ last.op = "forecast_bg" => last.response.kind # "unhandled"
    /\ last.op = "glucose_stats" =>
          \/ last.response.error # Null
          \/ last.response.forecast_data # <<>>
          \/ last.response.reason # Null
    /\ last.op = "advice" =>
          \/ last.response.error # Null
          \/ last.response.total_dose >= 0

\* C16: dose advice asked when the patient has no CGM reading, or none within
\* the last 24 hours, fails with NoGlucoseData; a dose is computed only from a
\* reading of the last 24 hours.
C16_NoGlucoseData ==
    last.op = "advice" =>
        /\ (last.age = <<>> \/ last.age[1] > DayMinutes) =>
              last.response.error = "No CGM data available"
        /\ last.response.error = Null =>
              (last.age # <<>> /\ last.age[1] <= DayMinutes)

(***************************************************************************)
(* The model cache under concurrent requests                               *)
(*   The forecast handler is taken step by step through                    *)
(*   _get_model_for_user (cache check, disk check, load, cache store) and  *)
(*   the fine-tune handler through training, model.save and the            *)
(*   invalidation.  The handlers are "async def" coroutines that never     *)
(*   await between these steps, so the event loop runs one handler at a    *)
(*   time: a handler takes the loop when it is called and gives it back    *)
(*   when it returns.  model.save writes the file in place: while it is    *)
(*   being written the file exists but cannot be loaded.                   *)
(***************************************************************************)
PartialFile == [kind |-> "partial"]

IdleForecast == [pc |-> "idle", user |-> Null, model |-> NoModel, overlapped |-> FALSE]

IdleFinetune == [pc |-> "idle", user |-> Null, success |-> FALSE, saved |-> NoModel]

\* proc while the handlers are followed: who holds the event loop, the two
\* handlers, and the model most recently served to each patient
LoopIdle ==
    [op |-> "loop", owner |-> "none", fc |-> IdleForecast, ft |-> IdleFinetune,
     served |-> [u \in Patients |-> NoModel]]

LoopFree_Threads(h) == TRUE

\* whether handler h may run its next step: the loop is free or h holds it
LoopFree(h) == proc.owner \in {"none", h}

RaceFrame ==
    UNCHANGED <<baseOnDisk, baseLoaded, cgm, appended, advVars, profVars, walk, call>>

\* a forecast request for user starts: model = _get_model_for_user(user_id)
FcCall ==
    \E user \in Patients :
        /\ proc.fc.pc = "idle"
        /\ LoopFree("fc")
        /\ proc' = [proc EXCEPT !.owner = "fc",
                                !.fc = [pc |-> "cache", user |-> user, model |-> NoModel,
                                        overlapped |-> proc.ft.pc # "idle"
                                                          /\ proc.ft.user = user]]
        /\ UNCHANGED <<userDisk, userCache, last>>
        /\ RaceFrame

\* if user_id in _user_models: return _user_models[user_id]
FcCacheCheck ==
    /\ proc.fc.pc = "cache"
    /\ LoopFree("fc")
    /\ proc' = IF userCache[proc.fc.user] # NoModel
               THEN [proc EXCEPT !.fc.pc = "return",
                                 !.fc.model = userCache[proc.fc.user]]
               ELSE [proc EXCEPT !.fc.pc = "disk"]
    /\ UNCHANGED <<userDisk, userCache, last>>
    /\ RaceFrame

\* if os.path.exists(user_model_path): ... else: return _model
FcDiskCheck ==
    /\ proc.fc.pc = "disk"
    /\ LoopFree("fc")
    /\ proc' = IF userDisk[proc.fc.user] # NoModel
               THEN [proc EXCEPT !.fc.pc = "load"]
               ELSE [proc EXCEPT !.fc.pc = "return",
                                 !.fc.model = IF baseLoaded THEN BaseModel ELSE NoModel]
    /\ UNCHANGED <<userDisk, userCache, last>>
    /\ RaceFrame

\* user_model = keras.models.load_model(user_model_path)
FcLoad ==
    /\ proc.fc.pc = "load"
    /\ LoopFree("fc")
    /\ proc' = IF userDisk[proc.fc.user] = PartialFile
               THEN [proc EXCEPT !.fc.pc = "raise"]
               ELSE [proc EXCEPT !.fc.pc = "store",
                                 !.fc.model = userDisk[proc.fc.user]]
    /\ UNCHANGED <<userDisk, userCache, last>>
    /\ RaceFrame

\* _user_models[user_id] = user_model
FcStore ==
    /\ proc.fc.pc = "store"
    /\ LoopFree("fc")
    /\ userCache' = [userCache EXCEPT ![proc.fc.user] = proc.fc.model]
    /\ proc' = [proc EXCEPT !.fc.pc = "return"]
    /\ UNCHANGED <<userDisk, last>>
    /\ RaceFrame

\* the forecast is made with the model and the handler returns, or the load
\* has raised
FcReturn ==
    /\ proc.fc.pc \in {"return", "raise"}
    /\ LoopFree("fc")
    /\ last' = [op |-> "served", user |-> proc.fc.user, model |-> proc.fc.model,
                crashed |-> proc.fc.pc = "raise",
                overlapped |-> proc.fc.overlapped,
                before |-> proc.served[proc.fc.user]]
    /\ proc' = [proc EXCEPT !.owner = IF proc.owner = "fc" THEN "none" ELSE proc.owner,
                            !.fc = IdleForecast,
                            !.served[proc.fc.user] = proc.fc.model]
    /\ UNCHANGED <<userDisk, userCache>>
    /\ RaceFrame

\* a fine-tune request for user starts: finetune_for_user reads the history and
\* trains on it
FtCall ==
    /\ proc.ft.pc = "idle"
    /\ LoopFree("ft")
    /\ \E user \in Patients : \E out \in {FinetuneForUser(user)} :
        /\ proc' = [proc EXCEPT
                       !.owner = "ft",
                       !.ft = [pc |-> IF out.saved # NoModel THEN "save" ELSE "return",
                               user |-> user,
                               success |-> out.raised = Null /\ out.ret.success,
                               saved |-> out.saved],
                       !.fc.overlapped = @ \/ (proc.fc.pc # "idle" /\ proc.fc.user = user)]
        /\ UNCHANGED <<userDisk, userCache, last>>
        /\ RaceFrame

\* model.save(user_model_path) starts to write the file
FtSaveBegin ==
    /\ proc.ft.pc = "save"
    /\ LoopFree("ft")
    /\ userDisk' = [userDisk EXCEPT ![proc.ft.user] = PartialFile]
    /\ proc' = [proc EXCEPT !.ft.pc = "saving"]
    /\ UNCHANGED <<userCache, last>>
    /\ RaceFrame

\* model.save(user_model_path) has written the file
FtSaveEnd ==
    /\ proc.ft.pc = "saving"
    /\ LoopFree("ft")
    /\ userDisk' = [userDisk EXCEPT ![proc.ft.user] = proc.ft.saved]
    /\ proc' = [proc EXCEPT !.ft.pc = "invalidate"]
    /\ UNCHANGED <<userCache, last>>
    /\ RaceFrame

\* if result["success"]: invalidate_user_model_cache(request.user_id)
FtInvalidate ==
    /\ proc.ft.pc = "invalidate"
    /\ LoopFree("ft")
    /\ userCache' = IF proc.ft.success
                    THEN InvalidateUserModelCache(userCache, proc.ft.user)
                    ELSE userCache
    /\ proc' = [proc EXCEPT !.ft.pc = "return"]
    /\ UNCHANGED <<userDisk, last>>
    /\ RaceFrame

\* return result
FtReturn ==
    /\ proc.ft.pc = "return"
    /\ LoopFree("ft")
    /\ last' = [op |-> "finetuned", user |-> proc.ft.user, success |-> proc.ft.success]
    /\ proc' = [proc EXCEPT !.owner = IF proc.owner = "ft" THEN "none" ELSE proc.owner,
                            !.ft = IdleFinetune]
    /\ UNCHANGED <<userDisk, userCache>>
    /\ RaceFrame

\* POST /cgms-data is a handler on the same loop
CgmCall ==
    /\ LoopFree("cgm")
    /\ ReceiveCgmData

InitRace ==
    /\ AdvisorIdle
    /\ ProfileIdle
    /\ walk = NoCall /\ call = NoCall
    /\ proc = LoopIdle
    /\ baseOnDisk = TRUE
    /\ baseLoaded = TRUE
    /\ cgm \in Stores
    /\ userDisk \in {d \in [Patients -> {NoModel, OldModel("p1"), OldModel("p2")}] :
                        \A u \in Patients : d[u] \in {NoModel, OldModel(u)}}
    /\ userCache = [u \in Patients |-> NoModel]
    /\ appended = 0
    /\ last = NoCall

NextRace ==
    \/ FcCall \/ FcCacheCheck \/ FcDiskCheck \/ FcLoad \/ FcStore \/ FcReturn
    \/ FtCall \/ FtSaveBegin \/ FtSaveEnd \/ FtInvalidate \/ FtReturn
    \/ CgmCall

\* forecast and fine-tune requests arriving in any order on the event loop
SpecRace == InitRace /\ [][NextRace]_vars

\* no handler is in flight
Quiescent == proc.fc.pc = "idle" /\ proc.ft.pc = "idle"

\* the model a forecast for user should use: the persisted fine-tuned model,
\* or the base model when there is none
CurrentModel(user) ==
    IF userDisk[user] # NoModel THEN userDisk[user]
    ELSE IF baseLoaded THEN BaseModel ELSE NoModel

MaxSlot == 3

Slots == 0..MaxSlot

\* IOB_DECAY = 0.5 ** (5 / 75): halved after 75 / 5 steps
HalfLifeSteps == 15

LongSlots == 0..HalfLifeSteps

\* the exponents a running sum keeps apart
SumLen == HalfLifeSteps + 1

\* logged per slot: nothing, an insulin dose, or a meal with its bolus
MealValues == {[insulin |-> 0, carbs |-> 0], [insulin |-> 2, carbs |-> 0],
               [insulin |-> 3, carbs |-> 30]}

\* iob, cob = 0.0, 0.0
ZeroSum == [e \in 1..SumLen |-> 0]

\* sum * DECAY
Decayed(sum) == [e \in 1..SumLen |-> IF e = 1 THEN 0 ELSE sum[e - 1]]

\* sum * DECAY + amount
DecayAndAdd(sum, amount) ==
    [e \in 1..SumLen |-> IF e = 1 THEN amount ELSE sum[e - 1]]

\* t_end: the slot of the last reading
LastSlot(slots) == CHOOSE t \in slots : \A u \in slots : u <= t

\* a walk that has not started: the slots that hold a CGM reading, those of
\* them that hold two, and meal_map
StartWalk(kind, cgmSlots, twice, meals) ==
    [op |-> "walk", kind |-> kind, cgmSlots |-> cgmSlots, twice |-> twice,
     meals |-> meals, t |-> 0, iob |-> ZeroSum, cob |-> ZeroSum, rows |-> <<>>,
     trace |-> <<>>]

\* the number of CGM readings whose timestamp falls in slot t
ReadingsAt(w, t) == IF t \in w.twice THEN 2 ELSE IF t \in w.cgmSlots THEN 1 ELSE 0

\* the rows one slot gives were every reading of the slot to get its own
CgmMap_PerReading(n) == n

\* cgm_map[key] = bg: the readings of one slot leave one entry, the last one
CgmMap(n) == IF n > 0 THEN 1 ELSE 0

\* n copies of a row
Repeat(row, n) == [i \in 1..n |-> row]

\* "if not cgm_rows: return np.empty(...)" and "while t <= t_end"
Walking == walk.cgmSlots # {} /\ walk.t <= LastSlot(walk.cgmSlots)

\* _build_time_series, one turn of "while t <= t_end"
TrainingStep ==
    /\ walk.kind = "training"
    /\ Walking
    /\ walk' =
          IF walk.t \notin walk.cgmSlots
          THEN [walk EXCEPT !.t = @ + 1,
                            !.trace = Append(@, [iob |-> walk.iob, cob |-> walk.cob])]
          ELSE LET m == walk.meals[walk.t]
                   iob == DecayAndAdd(walk.iob, m.insulin)
                   cob == DecayAndAdd(walk.cob, m.carbs)
               IN  [walk EXCEPT !.t = @ + 1, !.iob = iob, !.cob = cob,
                                !.rows = @ \o Repeat([slot |-> walk.t,
                                                      insulin |-> m.insulin,
                                                      carbs |-> m.carbs,
                                                      iob |-> iob, cob |-> cob],
                                                     CgmMap(ReadingsAt(walk, walk.t))),
                                !.trace = Append(@, [iob |-> iob, cob |-> cob])]
    /\ UNCHANGED <<advVars, profVars, engVars, proc, call>>

\* get_glucose_stats, one turn of "while t <= t_end", with the readings of
\* the slot, if any, as they enter readings_for_model
StatsStep ==
    /\ walk.kind = "forecast"
    /\ Walking
    /\ walk' =
          LET m == walk.meals[walk.t]
              iob == DecayAndAdd(walk.iob, m.insulin)
              cob == DecayAndAdd(walk.cob, m.carbs)
          IN  [walk EXCEPT !.t = @ + 1, !.iob = iob, !.cob = cob,
                           !.rows = @ \o Repeat([slot |-> walk.t,
                                                 insulin |-> m.insulin,
                                                 carbs |-> m.carbs,
                                                 iob |-> iob, cob |-> cob],
                                                ReadingsAt(walk, walk.t)),
                           !.trace = Append(@, [iob |-> iob, cob |-> cob])]
    /\ UNCHANGED <<advVars, profVars, engVars, proc, call>>

\* a single dose at the first slot of a grid of one half-life
SingleDose == [t \in LongSlots |-> IF t = 0 THEN [insulin |-> 2, carbs |-> 0]
                                             ELSE [insulin |-> 0, carbs |-> 0]]

\* the readings of the long grids: every slot, the two ends only, every fifth
LongReadings == {LongSlots, {0, HalfLifeSteps}, {t \in LongSlots : t % 5 = 0}}

\* the training grid starts at the slot of the first reading; the forecast
\* grid starts four hours before the window, with or without a reading
InitGrid ==
    /\ AdvisorIdle
    /\ ProfileIdle
    /\ proc = NoCall /\ call = NoCall
    /\ baseOnDisk = FALSE /\ baseLoaded = FALSE
    /\ cgm = <<>> /\ userDisk = <<>> /\ userCache = <<>>
    /\ appended = 0 /\ last = NoCall
    /\ \E kind \in {"training", "forecast"} :
          \/ \E cgmSlots \in SUBSET Slots, meals \in [Slots -> MealValues] :
                \E twice \in SUBSET cgmSlots :
                   /\ Cardinality(twice) <= 1
                   /\ kind = "forecast" => cgmSlots # {}
                   /\ (kind = "training" /\ cgmSlots # {}) => 0 \in cgmSlots
                   /\ walk = StartWalk(kind, cgmSlots, twice, meals)
          \/ \E cgmSlots \in LongReadings :
                walk = StartWalk(kind, cgmSlots, {}, SingleDose)

NextGrid == TrainingStep \/ StatsStep

\* the two grid walks over enumerated readings and meal events
SpecGrid == InitGrid /\ [][NextGrid]_vars

\* the running sums after slot t was visited (zero before the first slot)
SumsAfter(t) == IF t < 0 THEN [iob |-> ZeroSum, cob |-> ZeroSum] ELSE walk.trace[t + 1]

\* C18: on both grids, for every visited slot t, IOB[t] = IOB[t-1] * decay +
\* the insulin logged at t and COB[t] = COB[t-1] * decay + the carbs logged at
\* t, with IOB = COB = 0 before the first slot.
C18_DecayRecurrence ==
    \A t \in DOMAIN walk.meals :
        t < Len(walk.trace) =>
            /\ SumsAfter(t).iob = DecayAndAdd(SumsAfter(t - 1).iob, walk.meals[t].insulin)
            /\ SumsAfter(t).cob = DecayAndAdd(SumsAfter(t - 1).cob, walk.meals[t].carbs)

\* C19: on the training grid, the IOB/COB of an emitted row that follows the
\* previous emitted row after k slots without a reading holds what the
\* previous row held multiplied by decay^(k+1).
C19_DecayAcrossGaps ==
    walk.kind = "training" =>
        \A j \in 1..(Len(walk.rows) - 1) :
            LET a == walk.rows[j]
                b == walk.rows[j + 1]
                n == b.slot - a.slot
            IN  \A e \in 1..SumLen :
                    e + n <= SumLen =>
                        /\ b.iob[e + n] = a.iob[e]
                        /\ b.cob[e + n] = a.cob[e]

RECURSIVE Total(_, _)
\* the amounts held by a running sum, whatever their decay
Total(sum, e) == IF e = 0 THEN 0 ELSE sum[e] + Total(sum, e - 1)

RECURSIVE Logged(_, _)
\* the insulin (field = "insulin") or carbs logged at the slots 0..t
Logged(field, t) ==
    IF t < 0 THEN 0 ELSE walk.meals[t][field] + Logged(field, t - 1)

\* C20: on the training grid every dose and carb amount logged at a slot of the
\* grid, with or without a reading at that slot, is held (decayed) by the
\* IOB/COB of every later emitted row: no amount is dropped.
C20_NoEventDropped ==
    walk.kind = "training" =>
        \A j \in 1..Len(walk.rows) :
            /\ Total(walk.rows[j].iob, SumLen) = Logged("insulin", walk.rows[j].slot)
            /\ Total(walk.rows[j].cob, SumLen) = Logged("carbs", walk.rows[j].slot)

\* the walk has been through "while t <= t_end" (or returned at once)
WalkDone == walk.op = "walk" /\ ~Walking

\* the number of CGM readings handed to the builder
GridReadingCount == Cardinality(walk.cgmSlots) + Cardinality(walk.twice)

\* C21: the rows of the training grid are in strictly ascending slot order,
\* never more than the CGM readings supplied, and once the builder returns
\* there is exactly one row per distinct slot that holds a reading: none at
\* all when no reading was supplied, whatever meals were logged.
C21_OneRowPerBucket ==
    (walk.op = "walk" /\ walk.kind = "training") =>
        /\ \A j \in 1..(Len(walk.rows) - 1) : walk.rows[j].slot < walk.rows[j + 1].slot
        /\ Len(walk.rows) <= GridReadingCount
        /\ \A j \in 1..Len(walk.rows) : walk.rows[j].slot \in walk.cgmSlots
        /\ WalkDone => Len(walk.rows) = Cardinality(walk.cgmSlots)
        /\ walk.cgmSlots = {} => walk.rows = <<>>

\* a finished training walk over a slot with two readings, a slot with none
\* and a later slot with one
C21_Witness ==
    /\ walk.op = "walk" /\ walk.kind = "training" /\ WalkDone
    /\ walk.twice # {}
    /\ \E t \in DOMAIN walk.meals : t < LastSlot(walk.cgmSlots) /\ t \notin walk.cgmSlots
    /\ Len(walk.rows) >= 2

\* the decay steps the single amount held by a running sum has gone through
DoseExponent(sum) == CHOOSE e \in 0..(SumLen - 1) : sum[e + 1] # 0

\* C22: after a single dose of U units at t0 and no other dose, the IOB of the
\* grid is strictly decreasing from one emitted slot to the next and is U/2
\* (U * IOB_DECAY^15) at t0 + 75 minutes, whether or not the slots in between
\* held a CGM reading.
C22_HalfLife ==
    (walk.op = "walk" /\ walk.meals = SingleDose) =>
        /\ \A j \in 1..(Len(walk.rows) - 1) :
              DoseExponent(walk.rows[j].iob) < DoseExponent(walk.rows[j + 1].iob)
        /\ \A j \in 1..Len(walk.rows) :
              walk.rows[j].slot = HalfLifeSteps =>
                  walk.rows[j].iob = [e \in 1..SumLen |->
                                        IF e = HalfLifeSteps + 1 THEN 2 ELSE 0]

\* the same on the grids where the walk decays at every slot: the forecast
\* path, and the training grid without a missing reading
C22_HalfLifeWithoutGaps ==
    (walk.kind = "forecast" \/ walk.cgmSlots = LongSlots) => C22_HalfLife

\* POST /api/finetune-model has just answered with success
FinetuneSucceeded ==
    last.op = "finetune" /\ last.raised = Null /\ last.ret.success

\* C23: every training sequence is 12 consecutive grid rows, and its three
\* targets are the glucose values of the grid rows 6, 12 and 18 rows after the
\* window's last row, which are the readings 30, 60 and 90 minutes after the
\* window's last timestamp.
C23_TargetsAhead ==
    FinetuneSucceeded =>
        LET data == BuildTimeSeries(RowsOf(cgm[last.user]))
            seqs == CreateSequences(data)
        IN  \A i \in DOMAIN seqs :
                LET lastRow == seqs[i].first + InputLen - 1
                IN  \A h \in DOMAIN Horizons :
                        /\ seqs[i].targets[h] = lastRow + Horizons[h]
                        /\ data[seqs[i].targets[h]].slot =
                               data[lastRow].slot + Horizons[h] * GridStep

\* the same for the histories whose grid has no missing slot
C23_TargetsAheadWithoutGaps ==
    (FinetuneSucceeded /\ Len(cgm[last.user]) > 0
        /\ cgm[last.user][1] # Run(0, 5, 144, 120)) => C23_TargetsAhead

\* C24: glucose_roc of a feature row is the row's glucose minus the glucose of
\* the reading before it, and 0 only for the first reading of the series: in
\* the training grid, and in the 12-row inference window, where the window's
\* first row is compared with the reading supplied before it, if any.
C24_RocIsDifference ==
    /\ FinetuneSucceeded =>
          LET data == BuildTimeSeries(RowsOf(cgm[last.user]))
          IN  \A j \in DOMAIN data :
                  data[j].glucose_roc =
                      IF j = 1 THEN 0 ELSE data[j].glucose - data[j - 1].glucose
    /\ (last.op = "forecast" /\ last.out.error = Null) =>
          \A i \in 1..InputLen :
              LET k == Len(last.recent) - InputLen + i
              IN  last.out.input[i].glucose_roc =
                      IF k = 1 THEN 0
                      ELSE last.recent[k].glucose - last.recent[k - 1].glucose

\* the same for the calls that are given exactly the twelve rows of the window
C24_RocWithoutEarlierReadings ==
    (last.op = "forecast" => Len(last.recent) <= InputLen) => C24_RocIsDifference

RECURSIVE StatsSumAt(_, _, _)
\* get_glucose_stats: iob_at_ts[key] (field = "insulin") or cob_at_ts[key]
\* (field = "carbs") for the slot t of a timeline that starts at slot 0
StatsSumAt(meals, field, t) ==
    IF t < 0 THEN ZeroSum
    ELSE DecayAndAdd(StatsSumAt(meals, field, t - 1), meals[t][field])

\* the forecast walk leaves in its rows what StatsSumAt computes
StatsWalkAgrees ==
    (walk.op = "walk" /\ walk.kind = "forecast") =>
        \A j \in 1..Len(walk.rows) :
            /\ walk.rows[j].iob = StatsSumAt(walk.meals, "insulin", walk.rows[j].slot)
            /\ walk.rows[j].cob = StatsSumAt(walk.meals, "carbs", walk.rows[j].slot)

\* C25: for the same readings and the same meal and insulin events, the IOB
\* and COB that the training grid holds for the slot of a reading are the IOB
\* and COB that the forecast path feeds to the model for that slot.
C25_TrainingMatchesForecast ==
    (walk.op = "walk" /\ walk.kind = "training") =>
        \A j \in 1..Len(walk.rows) :
            /\ walk.rows[j].iob = StatsSumAt(walk.meals, "insulin", walk.rows[j].slot)
            /\ walk.rows[j].cob = StatsSumAt(walk.meals, "carbs", walk.rows[j].slot)

\* the same for the training grids that have a reading at every slot
C25_MatchesWithoutGaps ==
    (walk.cgmSlots = {} \/ walk.cgmSlots = 0..LastSlot(walk.cgmSlots))
        => C25_TrainingMatchesForecast

(***************************************************************************)
(* The explainer's summary (bg_explainer.py) and compute_iob                *)
(*   An attribution is round(., 4), kept in ten-thousandths; current_bg    *)
(*   and pred_60 are kept in tenths of a mg/dL (pred_60 is round(., 1)).   *)
(*   A summary is kept as the message chosen, the direction and the        *)
(*   drivers it names.  For compute_iob the clock and created_at are in    *)
(*   half-lives of 75 minutes, so that every remaining dose is an exact    *)
(*   rational.                                                             *)
(***************************************************************************)
\* the keys of a contrib dict, in insertion order
FeatureNames ==
    <<"Glucose Level", "Insulin Dose", "Carbs Intake", "Insulin on Board",
      "Carbs on Board", "Glucose Trend", "Time of Day">>

\* attributions of -0.2, 0 and 0.01
AttributionValues == {-2000, 0, 100}

\* explanations["60min"] for the seven merged features
Contribs == [DOMAIN FeatureNames -> AttributionValues]

ExplainDirection_Inclusive(current_bg, pred_60) ==
    IF current_bg = <<>> \/ pred_60 = <<>> THEN <<>>
    ELSE LET diff == pred_60[1] - current_bg[1]
         IN  IF diff >= 50 THEN <<"rise">>
             ELSE IF diff <= -50 THEN <<"drop">>
             ELSE <<"stable reading">>

\* explain_forecast: direction, <<>> for None
ExplainDirection(current_bg, pred_60) ==
    IF current_bg = <<>> \/ pred_60 = <<>> THEN <<>>
    ELSE LET diff == pred_60[1] - current_bg[1]
         IN  IF diff > 50 THEN <<"rise">>
             ELSE IF diff < -50 THEN <<"drop">>
             ELSE <<"stable reading">>

\* sorted(contrib.items(), key=lambda x: abs(x[1]), reverse=True): the keys,
\* largest absolute value first, equal ones in insertion order
SortedFeats(contrib) ==
    LET Before(j, i) == \/ Abs(contrib[j]) > Abs(contrib[i])
                        \/ Abs(contrib[j]) = Abs(contrib[i]) /\ j < i
        Rank(i) == 1 + Cardinality({j \in DOMAIN contrib : Before(j, i)})
    IN  [k \in DOMAIN contrib |-> CHOOSE i \in DOMAIN contrib : Rank(i) = k]

RECURSIVE SumOf(_, _)
\* sum(v for _, v in sorted_feats), sum(abs(v) ...): over the first n entries
SumOf(values, n) == IF n = 0 THEN 0 ELSE values[n] + SumOf(values, n - 1)

TopFeats_All(sorted) == sorted

\* sorted_feats[:3]
TopFeats(sorted) == SubSeq(sorted, 1, Min(3, Len(sorted)))

Listed_AboveHalf(pct) == pct >= 50

\* not (pct < 5)
Listed(pct) == pct >= 5

\* _generate_summary
GenerateSummary(contrib, direction) ==
    LET Message(kind, dir, drivers) == [kind |-> kind, direction |-> dir, drivers |-> drivers]
        sorted == SortedFeats(contrib)
        total == SumOf(contrib, Len(contrib))
        dir == IF direction # <<>> THEN direction[1]
               ELSE IF total > 100 THEN "rise"
               ELSE IF total < -100 THEN "drop"
               ELSE "stable reading"
        total_abs == SumOf([i \in DOMAIN contrib |-> Abs(contrib[i])], Len(contrib))
        top == TopFeats(sorted)
        drivers == [k \in DOMAIN top |->
                      [feature |-> top[k], name |-> FeatureNames[top[k]],
                       sign |-> IF contrib[top[k]] > 0 THEN "+" ELSE "-",
                       pct |-> RoundHalfEven(100 * Abs(contrib[top[k]]), total_abs)]]
        top_drivers == SelectSeq(drivers, LAMBDA d : Listed(d.pct))
    IN  IF contrib = <<>> THEN Message("unable", Null, <<>>)
        ELSE IF total_abs = 0 THEN Message("no_significant_drivers", Null, <<>>)
        ELSE IF top_drivers = <<>> THEN Message("balanced_mix", Null, <<>>)
        ELSE Message("drivers", dir, top_drivers)

\* pred_60 for a current_bg of 100.0: from 94.9 to 105.1
PredValues == {949, 950, 1000, 1050, 1051}

\* forecast_glucose(explain=True) calls explain_forecast with current_bg and
\* pred_60; the summary of the 60-minute attributions (a behaviour is one call
\* on enumerated arguments)
ExplainForecastCall ==
    \E contrib \in Contribs, current_bg \in {1000}, pred_60 \in PredValues :
        /\ call = NoCall
        /\ call' = [op |-> "explain_forecast", contrib |-> contrib,
                    current_bg |-> current_bg, pred_60 |-> pred_60,
                    summary |-> GenerateSummary(contrib,
                                    ExplainDirection(<<current_bg>>, <<pred_60>>))]
        /\ UNCHANGED <<advVars, profVars, engVars, proc, walk>>

RECURSIVE Pow2(_)
Pow2(k) == IF k = 0 THEN 1 ELSE 2 * Pow2(k - 1)

\* timedelta(hours=5), in half-lives of 75 minutes
LookbackHalfLives == 4

\* insulin * (0.5 ** (elapsed_min / half_life)), elapsed in half-lives
Remaining(insulin, elapsed) ==
    IF elapsed >= 0 THEN <<insulin, Pow2(elapsed)>> ELSE <<insulin * Pow2(-elapsed), 1>>

RECURSIVE IobSum(_, _, _)
\* the loop over rows: iob += remaining, for the rows with insulin > 0
IobSum(rows, clock, n) ==
    IF n = 0 THEN <<0, 1>>
    ELSE LET rest == IobSum(rows, clock, n - 1)
         IN  IF InsulinOf(rows[n]) <= 0 THEN rest
             ELSE RatAdd(rest, Remaining(InsulinOf(rows[n]), clock - rows[n].created_at))

\* compute_iob, in hundredths of a unit: the rows later than lookback, each
\* dose halved once per half-life since created_at
ComputeIob(rows, clock) ==
    LET recent == QueryMealData(rows, clock - LookbackHalfLives)
    IN  Round2(IobSum(recent, clock, Len(recent)))

\* now_utc at the call
IobClock == 2 * LookbackHalfLives + 2

\* meal_data rows of the user: insulin absent, negative, zero or positive;
\* created_at from more than five hours before the call to 75 minutes after
\* it (flask_backend.py stamps rows with the server's local wall clock,
\* compute_iob reads the clock in UTC)
IobRows ==
    [insulin : {<<>>, <<-2>>, <<0>>, <<1>>, <<4>>},
     created_at : (IobClock - LookbackHalfLives - 1)..(IobClock + 1)]

\* up to two rows, in created_at order
IobTables ==
    {<<>>} \cup {<<r>> : r \in IobRows}
           \cup {t \in {<<r, q>> : r \in IobRows, q \in IobRows} :
                     t[1].created_at <= t[2].created_at}

\* one call of compute_iob
ComputeIobCall ==
    \E rows \in IobTables :
        /\ call = NoCall
        /\ call' = [op |-> "compute_iob", rows |-> rows, clock |-> IobClock,
                    result |-> ComputeIob(rows, IobClock)]
        /\ UNCHANGED <<advVars, profVars, engVars, proc, walk>>

InitCalc ==
    /\ AdvisorIdle
    /\ ProfileIdle
    /\ SideIdle
    /\ baseOnDisk = FALSE /\ baseLoaded = FALSE
    /\ cgm = <<>> /\ userDisk = <<>> /\ userCache = <<>>
    /\ appended = 0 /\ last = NoCall

NextCalc == ExplainForecastCall \/ ComputeIobCall

\* the explainer's summary and compute_iob applied to enumerated arguments
SpecCalc == InitCalc /\ [][NextCalc]_vars

\* the difference pred_60 - current_bg of the explain_forecast call, in tenths
CallDiff == call.pred_60 - call.current_bg

\* the sum of the attributions of the call
CallTotal == SumOf(call.contrib, Len(call.contrib))

\* C26: the direction a summary names is "rise" when pred_60 - current_bg is
\* above +5, "drop" when it is below -5 and "stable reading" otherwise, +5 and
\* -5 included, whatever the signs of the attributions.
C26_DirectionFromDifference ==
    (call.op = "explain_forecast" /\ call.summary.kind = "drivers") =>
        call.summary.direction =
            IF CallDiff > 50 THEN "rise"
            ELSE IF CallDiff < -50 THEN "drop"
            ELSE "stable reading"

\* a summary for a difference of exactly +5 whose attributions sum to more
\* than 0.01 (the signs alone would say "rise")
C26_Witness ==
    /\ call.op = "explain_forecast" /\ call.summary.kind = "drivers"
    /\ CallDiff = 50
    /\ CallTotal > 100
    /\ call.summary.direction = "stable reading"

\* the sum of the absolute attributions of the call
CallTotalAbs == SumOf([i \in DOMAIN call.contrib |-> Abs(call.contrib[i])], Len(call.contrib))

\* the features the summary of the call names, in the order it names them
CallDrivers == [k \in DOMAIN call.summary.drivers |-> call.summary.drivers[k].feature]

\* the named drivers are at most three, by descending absolute attribution
DriversRanked ==
    /\ Len(CallDrivers) <= 3
    /\ \A k \in 1..(Len(CallDrivers) - 1) :
          Abs(call.contrib[CallDrivers[k]]) >= Abs(call.contrib[CallDrivers[k + 1]])

\* C27, as stated: the summary names features of the 60-minute horizon by
\* descending absolute attribution, at most three, and names a feature only
\* if its absolute attribution is at least 5% of the total absolute
\* attribution; for a total of exactly zero it is the "No significant
\* drivers identified" message.
C27_DriversAtLeastFivePercent ==
    call.op = "explain_forecast" =>
        /\ CallTotalAbs = 0 => call.summary.kind = "no_significant_drivers"
        /\ DriversRanked
        /\ \A k \in DOMAIN CallDrivers :
              100 * Abs(call.contrib[CallDrivers[k]]) >= 5 * CallTotalAbs

\* C27, amended: the threshold is applied to the share rounded to a whole
\* percent, so a feature is named only if its share is above 4.5%, and every
\* feature among the three largest with such a share is named.
C27_DriversRounded ==
    call.op = "explain_forecast" =>
        /\ CallTotalAbs = 0 <=> call.summary.kind = "no_significant_drivers"
        /\ DriversRanked
        /\ \A k \in DOMAIN CallDrivers :
              200 * Abs(call.contrib[CallDrivers[k]]) > 9 * CallTotalAbs
        /\ \A i \in DOMAIN call.contrib :
              LET larger == {j \in DOMAIN call.contrib :
                               \/ Abs(call.contrib[j]) > Abs(call.contrib[i])
                               \/ Abs(call.contrib[j]) = Abs(call.contrib[i]) /\ j < i}
              IN  (Cardinality(larger) < 3
                      /\ 200 * Abs(call.contrib[i]) > 9 * CallTotalAbs)
                      => \E k \in DOMAIN CallDrivers : CallDrivers[k] = i

\* a summary that names a feature whose share is below 5% (and rounds to 5)
C27_Witness ==
    /\ call.op = "explain_forecast" /\ call.summary.kind = "drivers"
    /\ \E k \in DOMAIN CallDrivers :
          /\ 100 * Abs(call.contrib[CallDrivers[k]]) < 5 * CallTotalAbs
          /\ call.summary.drivers[k].pct = 5

\* C30: whenever the 60-minute attribution map is non-empty and its total
\* absolute attribution is not zero, the summary names at least one and at
\* most three drivers: the "balanced mix of factors" message is never
\* produced for the seven merged features.
C30_SomeDriverNamed ==
    (call.op = "explain_forecast" /\ call.contrib # <<>> /\ CallTotalAbs # 0) =>
        /\ call.summary.kind = "drivers"
        /\ Len(call.summary.drivers) \in 1..3

\* a summary for seven equal attributions (the smallest largest share, 1/7),
\* and it names three drivers
C30_Witness ==
    /\ call.op = "explain_forecast" /\ CallTotalAbs # 0
    /\ \A i \in DOMAIN call.contrib : call.contrib[i] = call.contrib[1]
    /\ Len(call.contrib) = 7
    /\ Len(call.summary.drivers) = 3

\* the rows of the compute_iob call logged in the trailing five hours with a
\* dose: lookback < created_at <= now, insulin > 0
TrailingDoses ==
    SelectSeq(call.rows, LAMBDA row : /\ row.created_at > call.clock - LookbackHalfLives
                                      /\ row.created_at <= call.clock
                                      /\ InsulinOf(row) > 0)

\* the rows of the compute_iob call that its loop adds up
CountedDoses ==
    SelectSeq(QueryMealData(call.rows, call.clock - LookbackHalfLives),
              LAMBDA row : InsulinOf(row) > 0)

RECURSIVE DoseTotal(_, _)
\* the doses of the first n rows, undecayed
DoseTotal(rows, n) == IF n = 0 THEN 0 ELSE InsulinOf(rows[n]) + DoseTotal(rows, n - 1)

\* C28: compute_iob returns (rounded to two decimals) the sum, over exactly
\* the doses logged in the trailing five hours, of dose * 0.5^(elapsed / 75
\* minutes); older doses contribute nothing; the result is not negative and
\* not above the sum of the doses counted.
C28_IobIsDecayedSum ==
    call.op = "compute_iob" =>
        /\ call.result = Round2(IobSum(TrailingDoses, call.clock, Len(TrailingDoses)))
        /\ call.result >= 0
        /\ call.result <= 100 * DoseTotal(CountedDoses, Len(CountedDoses))

\* the same for the tables without a row stamped later than the clock
C28_IobWithoutLaterRows ==
    (call.op = "compute_iob"
        => \A i \in DOMAIN call.rows : call.rows[i].created_at <= call.clock)
    => C28_IobIsDecayedSum

\* POST /api/finetune-model has just answered for a call that returned
\* success = false or raised
FinetuneFailed ==
    last.op = "finetune" /\ (last.raised # Null \/ ~last.ret.success)

\* C29: when finetune_for_user returns success = false or raises, the
\* endpoint answers success = false with a message, the patient's cache entry
\* and persisted model are what they were before the call, and a forecast for
\* the patient right after it resolves the model it would have resolved
\* before.
C29_FailureKeepsModels ==
    /\ FinetuneFailed =>
          /\ ~last.response.success
          /\ last.response.message # Null /\ last.response.message # ""
          /\ ~last.wrote
          /\ userCache[last.user] = last.cached
          /\ userDisk[last.user] = last.before
    /\ (last.op = "forecast" /\ last.user # Null /\ last.after.op = "finetune"
           /\ last.after.user = last.user /\ ~last.after.success) =>
          last.resolved =
              IF last.after.cached # NoModel THEN last.after.cached
              ELSE IF userDisk[last.user] # NoModel THEN userDisk[last.user]
              ELSE IF baseLoaded THEN BaseModel ELSE NoModel

\* a failed fine-tune for a patient whose model was in the cache
C29_Witness ==
    FinetuneFailed /\ last.cached # NoModel /\ userCache[last.user] = last.cached

\* a forecast right after a failed fine-tune of the same patient, served from
\* the model cached before it
C29_ForecastAfterFailure ==
    /\ last.op = "forecast" /\ last.user # Null /\ last.after.op = "finetune"
    /\ last.after.user = last.user /\ ~last.after.success
    /\ last.after.cached # NoModel /\ last.resolved = last.after.cached

====
